---- MODULE Spec2Model ----
(***************************************************************************)
(* Sentinel risk engine (apps/web/src/lib/sentinel/risk-engine.ts).        *)
(*                                                                         *)
(* Scores are kept in tenths of a point (riskScore 45.5 is 455): the only  *)
(* fractional products of the weights are multiples of 0.5, and every sum  *)
(* of them is exact in IEEE doubles.  Timestamps are minutes relative to   *)
(* the start of the behaviour.                                             *)
(***************************************************************************)
EXTENDS Integers, Sequences, FiniteSets, Bags, TLC

\* ------------------------------------------------------------ bounds
\* Latest value of the clock, in minutes.
MaxNow == 40
\* Assessment inserts the engine may issue in one behaviour.
MaxWrites == 1
\* Largest device binding age (days) drawn for the scoring functions.
MaxBindingAge == 11
\* Largest score drawn for the decision functions, in half points (200 is 100.0).
MaxHalfPoints == 200
\* Latest clock drawn for the geovelocity rule, in steps of ten minutes.
MaxGeoSteps == 9
\* Most fraud_alert rows the user has in the trailing 90 days.
MaxAlerts == 7
\* Status writes applied to the transaction in one behaviour.
MaxTxWrites == 2

\* ------------------------------------------------------------ program constants
SIM_CHANGE_HOURS_THRESHOLD == 24
GEOVELOCITY_KM_PER_HOUR == 800
MIN_DEVICE_BINDING_DAYS == 7
THRESHOLD_MEDIUM == 30
THRESHOLD_HIGH == 60
THRESHOLD_CRITICAL == 80

\* ------------------------------------------------------------ value sets
Calls == {"c1", "c2"}
\* The caller that issues requests one after the other in Spec.
Sequential == {"c1"}

KnownTypes == {"LOGIN", "TRANSACTION", "HIGH_VALUE_TRANSACTION"}
\* "WIRE" stands for any client-supplied string that is none of the three.
AssessmentTypes == KnownTypes \cup {"WIRE"}

Levels == {"LOW", "MEDIUM", "HIGH", "CRITICAL"}
Actions == {"ALLOW", "CHALLENGE", "BLOCK", "ESCROW"}

\* SQL NULL in a text column (never equal to a context's string).
SqlNull == "<null>"
\* Absent optional field of an object (undefined).
Undefined == "<undefined>"

\* Two places 1000 km apart.
Locations == {"A", "B"}
\* Local hours around the 03:00-06:00 window.
Hours == {2, 3, 6, 7}

\* Device contexts a caller supplies (location and timezone are optional;
\* "Not/AZone" is a timezone identifier the runtime does not know).
Contexts ==
    { [ipAddress |-> "10.0.0.1", location |-> "A", timezone |-> "Africa/Johannesburg"],
      [ipAddress |-> "10.0.0.2", location |-> "B", timezone |-> Undefined],
      [ipAddress |-> "10.0.0.1", location |-> Undefined, timezone |-> "Not/AZone"] }

\* Rows the fraud_alert table may hold for the user in the trailing 90 days.
FraudAlertCounts == {0, 7}

\* ------------------------------------------------------------ helpers
Min(a, b) == IF a <= b THEN a ELSE b
Max(a, b) == IF a >= b THEN a ELSE b

\* JSON.stringify of a coordinate object, and JSON.parse of a text.
JSONStringify(loc) == "{" \o loc \o "}"
JSONParses(text) == \E l \in Locations : JSONStringify(l) = text
JSONParse(text) == CHOOSE l \in Locations : JSONStringify(l) = text

\* Great-circle distance in km between two named places.
calculateDistance(l1, l2) == IF l1 = l2 THEN 0 ELSE 1000

\* diff <= hours * 60 * 60 * 1000, in minutes.
isWithinHours(timestamp, hours, clock) == (clock - timestamp) <= hours * 60

\* timezone undefined: false; an unknown zone makes toLocaleString throw a
\* RangeError, which the method catches: false; else 3 <= hour <= 6.
isUnusualAccessTime(timezone, hour) ==
    IF timezone = Undefined THEN FALSE
    ELSE IF timezone = "Not/AZone" THEN FALSE
    ELSE hour >= 3 /\ hour <= 6

\* Math.min(30, alerts.length * 5); 0 when the read throws.
fraudScoreOf(alerts, readFails) == IF readFails THEN 0 ELSE Min(30, alerts * 5)

\* ------------------------------------------------------------ scoring
BaseWeights ==
    [simChange |-> 10, imeiMismatch |-> 10, geovelocity |-> 10, newDevice |-> 10,
     ipChange |-> 10, timeAnomaly |-> 10, fraudHistory |-> 10]

HighValueWeights ==
    [BaseWeights EXCEPT !.simChange = 15, !.imeiMismatch = 13, !.geovelocity = 12]

\* Fault variant: the high-value branch is lost.
getWeightsIgnoringType(assessmentType) == BaseWeights

\* Weights in tenths (1.5 is 15).
getWeights(assessmentType) ==
    IF assessmentType = "HIGH_VALUE_TRANSACTION" THEN HighValueWeights ELSE BaseWeights

\* Fault variant: the reduction is not capped at 20.
bindingReductionUncapped(age) ==
    IF age > MIN_DEVICE_BINDING_DAYS THEN age * 2 ELSE 0

\* Fault variant: a binding of exactly seven days already counts.
bindingReductionFromSeven(age) ==
    IF age >= MIN_DEVICE_BINDING_DAYS THEN Min(20, age * 2) ELSE 0

\* Positive factors: the reduction, in points.
bindingReduction(age) ==
    IF age > MIN_DEVICE_BINDING_DAYS THEN Min(20, age * 2) ELSE 0

\* Fault variant: the final Math.max/Math.min is lost.
calculateRiskScoreUnclamped(factors, assessmentType) ==
    LET w == getWeights(assessmentType)
    IN  (IF factors.simChangeRecent THEN 40 * w.simChange ELSE 0)
      + (IF factors.imeiMismatch THEN 35 * w.imeiMismatch ELSE 0)
      + (IF factors.geovelocityAnomaly THEN 30 * w.geovelocity ELSE 0)
      + (IF factors.firstTimeDevice THEN 20 * w.newDevice ELSE 0)
      + (IF factors.ipLocationChange THEN 15 * w.ipChange ELSE 0)
      + (IF factors.unusualTimeAccess THEN 10 * w.timeAnomaly ELSE 0)
      - 10 * bindingReduction(factors.deviceBindingAge)
      + factors.fraudHistoryScore * w.fraudHistory

\* The score in tenths of a point, clamped to 0..1000.
calculateRiskScore(factors, assessmentType) ==
    LET w == getWeights(assessmentType)
        raw == (IF factors.simChangeRecent THEN 40 * w.simChange ELSE 0)
             + (IF factors.imeiMismatch THEN 35 * w.imeiMismatch ELSE 0)
             + (IF factors.geovelocityAnomaly THEN 30 * w.geovelocity ELSE 0)
             + (IF factors.firstTimeDevice THEN 20 * w.newDevice ELSE 0)
             + (IF factors.ipLocationChange THEN 15 * w.ipChange ELSE 0)
             + (IF factors.unusualTimeAccess THEN 10 * w.timeAnomaly ELSE 0)
             - 10 * bindingReduction(factors.deviceBindingAge)
             + factors.fraudHistoryScore * w.fraudHistory
    IN  Max(0, Min(1000, raw))

\* Fault variant: the tiers exclude their lower boundary.
getRiskLevelExclusive(score) ==
    IF score > THRESHOLD_CRITICAL * 10 THEN "CRITICAL"
    ELSE IF score > THRESHOLD_HIGH * 10 THEN "HIGH"
    ELSE IF score > THRESHOLD_MEDIUM * 10 THEN "MEDIUM"
    ELSE "LOW"

getRiskLevel(score) ==
    IF score >= THRESHOLD_CRITICAL * 10 THEN "CRITICAL"
    ELSE IF score >= THRESHOLD_HIGH * 10 THEN "HIGH"
    ELSE IF score >= THRESHOLD_MEDIUM * 10 THEN "MEDIUM"
    ELSE "LOW"

\* Fault variant: one threshold for every assessment type.
stepUpThresholdUniform(assessmentType) == 50

\* Fault variant: outside HIGH_VALUE_TRANSACTION step-up starts at 60.
stepUpThresholdRaised(assessmentType) ==
    IF assessmentType = "HIGH_VALUE_TRANSACTION" THEN 40 ELSE 60

stepUpThreshold(assessmentType) ==
    IF assessmentType = "HIGH_VALUE_TRANSACTION" THEN 40 ELSE 50

shouldStepUp(score, assessmentType) == score >= 10 * stepUpThreshold(assessmentType)

\* Fault variant: the SIM-swap plus IMEI-mismatch override is lost.
getRecommendedActionByScore(score, factors) ==
    IF score >= 850 THEN "BLOCK"
    ELSE IF score >= 700 THEN "ESCROW"
    ELSE IF score >= 400 THEN "CHALLENGE"
    ELSE "ALLOW"

\* Fault variant: the ESCROW test runs before the BLOCK test.
getRecommendedActionEscrowFirst(score, factors) ==
    IF score >= 700 THEN "ESCROW"
    ELSE IF score >= 850 \/ (factors.simChangeRecent /\ factors.imeiMismatch) THEN "BLOCK"
    ELSE IF score >= 400 THEN "CHALLENGE"
    ELSE "ALLOW"

getRecommendedAction(score, factors) ==
    IF score >= 850 \/ (factors.simChangeRecent /\ factors.imeiMismatch) THEN "BLOCK"
    ELSE IF score >= 700 THEN "ESCROW"
    ELSE IF score >= 400 THEN "CHALLENGE"
    ELSE "ALLOW"

\* Fault variant: the base confidence is that of the fallback.
calculateConfidenceLowBase(factors, telco) ==
    Min(100, 30
        + (IF telco.present /\ telco.hasSimChange THEN 20 ELSE 0)
        + (IF telco.present /\ telco.currentImei # Undefined THEN 15 ELSE 0)
        + (IF factors.deviceBindingAge > 0 THEN 10 ELSE 0)
        + (IF ~factors.firstTimeDevice THEN 5 ELSE 0))

\* telco: the TelcoSignals object or null.
calculateConfidence(factors, telco) ==
    Min(100, 50
        + (IF telco.present /\ telco.hasSimChange THEN 20 ELSE 0)
        + (IF telco.present /\ telco.currentImei # Undefined THEN 15 ELSE 0)
        + (IF factors.deviceBindingAge > 0 THEN 10 ELSE 0)
        + (IF ~factors.firstTimeDevice THEN 5 ELSE 0))

FailSafeFactors ==
    [simChangeRecent |-> FALSE, imeiMismatch |-> FALSE, geovelocityAnomaly |-> FALSE,
     deviceBindingAge |-> 0, ipLocationChange |-> FALSE, unusualTimeAccess |-> FALSE,
     firstTimeDevice |-> TRUE, fraudHistoryScore |-> 0]

\* Fault variant: the fallback fails open.
getFailOpenAssessment ==
    [riskScore |-> 0, riskLevel |-> "LOW", factors |-> FailSafeFactors,
     stepUpRequired |-> FALSE, recommendedAction |-> "ALLOW", confidence |-> 30]

getFailSafeAssessment ==
    [riskScore |-> 500, riskLevel |-> "MEDIUM", factors |-> FailSafeFactors,
     stepUpRequired |-> TRUE, recommendedAction |-> "CHALLENGE", confidence |-> 30]

\* ------------------------------------------------------------ tables
\* telco_signal rows (latest by lastUpdated): simChangeTimestamp may be NULL,
\* imeiHistory may be NULL or empty (imei0 undefined).
TelcoRows ==
    { [hasSimChange |-> TRUE, simChangeTimestamp |-> -60, imei0 |-> "imei-A"],
      [hasSimChange |-> TRUE, simChangeTimestamp |-> -1440, imei0 |-> Undefined],
      [hasSimChange |-> FALSE, simChangeTimestamp |-> 0, imei0 |-> "imei-A"] }

\* device_fingerprint rows of the (user, deviceId) pair: imei may be NULL,
\* firstSeen is NOT NULL (minutes; one day is 1440).
DeviceRows ==
    { [imei |-> SqlNull, firstSeen |-> 0],
      [imei |-> "imei-A", firstSeen |-> -7 * 1440],
      [imei |-> "imei-B", firstSeen |-> -8 * 1440],
      [imei |-> "imei-B", firstSeen |-> -10 * 1440] }

\* risk_assessment rows written outside the engine: the demo seed's latest
\* row (no ip, no location), and a row whose location text is not JSON.
SeedRow == [ipAddress |-> SqlNull, location |-> SqlNull, createdAt |-> -15]
ForeignRow == [ipAddress |-> "10.0.0.1", location |-> "Cape Town", createdAt |-> 0]
\* A row an earlier assessRisk call of the user left behind.
EarlierRow == [ipAddress |-> "10.0.0.1", location |-> JSONStringify("A"), createdAt |-> 0]

Falsy(s) == s \in {SqlNull, Undefined, ""}

\* ------------------------------------------------------------ state
VARIABLES
    pc,             \* per call: "idle", "fetch" (awaiting Promise.all), "done"
    ctx,            \* per call: the DeviceContext argument
    atype,          \* per call: the assessmentType argument
    telcoData,      \* per call: what getTelcoSignals resolved to
    deviceData,     \* per call: what getDeviceFingerprint resolved to
    lastSession,    \* per call: what getLastSessionLocation resolved to
    returned,       \* per call: "none", "value" (a result) or "throw"
    caught,         \* per call: the catch block of assessRisk ran
    result,         \* per call: the RiskAssessmentResult handed to the caller
    assessments,    \* risk_assessment rows of the user (a bag)
    pendingWrites,  \* inserts issued by storeAssessment and not yet settled
    writesIssued,   \* inserts issued so far
    now,            \* the clock, minutes
    sFactors, sType, sScore, sPrev,  \* scoring functions applied to drawn inputs
    decision,       \* the decision functions applied to a drawn score
    geoRun,         \* the geovelocity rule applied to a drawn prior row
    fraudAlerts,    \* fraud_alert rows of the user in the trailing 90 days
    derivation,     \* two factor derivations from the same arguments
    txStatus,       \* payment_transaction.status of one transaction
    txRiskScore,    \* payment_transaction.riskScore (tenths of a point)
    txStepUpRequired, \* payment_transaction.stepUpRequired
    txStatusChanges,  \* payment_transaction.metadata.statusChanges
    txHistory,      \* the values the status column has held, oldest first
    agent,          \* per agent call of changeStatus: its position and what it read
    txEscrowReleaseTime, \* payment_transaction.escrowReleaseTime (minutes; -1 is NULL)
    txForced,       \* a changeStatus call with forceChange = true was made
    initiated,      \* what the initiate route got from the engine and answered
    seedReq,        \* per seed request: its position, its Date.now(), its inserts
    demoRows        \* per table: the demo sets it holds, by the Date.now() in their ids

vars == <<pc, ctx, atype, telcoData, deviceData, lastSession, returned, caught, result,
          assessments, pendingWrites, writesIssued, now,
          sFactors, sType, sScore, sPrev,
          decision, geoRun, fraudAlerts, derivation,
          txStatus, txRiskScore, txStepUpRequired, txStatusChanges, txHistory, agent,
          txEscrowReleaseTime, txForced, initiated, seedReq, demoRows>>

engineVars == <<pc, ctx, atype, telcoData, deviceData, lastSession, returned, caught, result,
                assessments, pendingWrites, writesIssued, now>>
scoreVars == <<sFactors, sType, sScore, sPrev>>
pureVars == <<decision, geoRun, fraudAlerts, derivation>>
txVars == <<txStatus, txRiskScore, txStepUpRequired, txStatusChanges, txHistory, agent,
           txEscrowReleaseTime, txForced, initiated>>
seedVars == <<seedReq, demoRows>>

\* ------------------------------------------------------------ read results
NoTelco(outcome) ==
    [outcome |-> outcome, present |-> FALSE, hasSimChange |-> FALSE,
     simChangeTimestamp |-> 0, currentImei |-> Undefined]

NoDevice(outcome) ==
    [outcome |-> outcome, present |-> FALSE, imei |-> SqlNull, firstSeen |-> 0]

NoSession(outcome) ==
    [outcome |-> outcome, present |-> FALSE, ipAddress |-> SqlNull,
     location |-> SqlNull, createdAt |-> 0]

\* A select either throws (read = "throws") or returns its rows ("ok"); found is
\* the first row of the result: [any |-> FALSE] or [any |-> TRUE, row |-> r].
\* Fault variant: the helper lets the select's error escape (its promise rejects).
getTelcoSignalsRethrowing(read, found) ==
    IF read = "throws" THEN NoTelco("rejected")
    ELSE IF ~found.any THEN NoTelco("notfound")
    ELSE [outcome |-> "found", present |-> TRUE,
          hasSimChange |-> found.row.hasSimChange,
          simChangeTimestamp |-> found.row.simChangeTimestamp,
          currentImei |-> IF Falsy(found.row.imei0) THEN Undefined ELSE found.row.imei0]

\* The helper returns null when the select throws or finds nothing.
getTelcoSignals(read, found) ==
    IF read = "throws" THEN NoTelco("error")
    ELSE IF ~found.any THEN NoTelco("notfound")
    ELSE [outcome |-> "found", present |-> TRUE,
          hasSimChange |-> found.row.hasSimChange,
          simChangeTimestamp |-> found.row.simChangeTimestamp,
          currentImei |-> IF Falsy(found.row.imei0) THEN Undefined ELSE found.row.imei0]

getDeviceFingerprint(read, found) ==
    IF read = "throws" THEN NoDevice("error")
    ELSE IF ~found.any THEN NoDevice("notfound")
    ELSE [outcome |-> "found", present |-> TRUE,
          imei |-> found.row.imei, firstSeen |-> found.row.firstSeen]

getLastSessionLocation(read, found) ==
    IF read = "throws" THEN NoSession("error")
    ELSE IF ~found.any THEN NoSession("notfound")
    ELSE [outcome |-> "found", present |-> TRUE,
          ipAddress |-> found.row.ipAddress, location |-> found.row.location,
          createdAt |-> found.row.createdAt]

Pending == "pending"
\* A select whose promise never settles.
Hung == "hung"
\* Promise.all resolves only when none of its promises is unsettled.
Unsettled == {Pending, Hung}
PendingTelco == NoTelco(Pending)
PendingDevice == NoDevice(Pending)
PendingSession == NoSession(Pending)

NoFactors ==
    [simChangeRecent |-> FALSE, imeiMismatch |-> FALSE, geovelocityAnomaly |-> FALSE,
     deviceBindingAge |-> -1, ipLocationChange |-> FALSE, unusualTimeAccess |-> FALSE,
     firstTimeDevice |-> FALSE, fraudHistoryScore |-> -1]

NoResult ==
    [riskScore |-> -1, riskLevel |-> "", factors |-> NoFactors,
     stepUpRequired |-> FALSE, recommendedAction |-> "", confidence |-> -1]

NoContext == [ipAddress |-> "", location |-> Undefined, timezone |-> Undefined]

\* ------------------------------------------------------------ factors
\* Fault variant: the exemption covers exactly 30 minutes too.
checkGeovelocityInclusiveFloor(session, context, clock) ==
    IF Falsy(session.location) \/ context.location = Undefined
    THEN [threw |-> FALSE, value |-> FALSE]
    ELSE IF ~JSONParses(session.location)
    THEN [threw |-> TRUE, value |-> FALSE]
    ELSE LET lastLocation == JSONParse(session.location)
             timeDiff == clock - session.createdAt
             distance == calculateDistance(lastLocation, context.location)
         IN  IF timeDiff <= 30 THEN [threw |-> FALSE, value |-> FALSE]
             ELSE [threw |-> FALSE,
                   value |-> distance * 60 > GEOVELOCITY_KM_PER_HOUR * timeDiff]

\* [threw, value]: JSON.parse throws on a text that is not JSON.
checkGeovelocity(session, context, clock) ==
    IF Falsy(session.location) \/ context.location = Undefined
    THEN [threw |-> FALSE, value |-> FALSE]
    ELSE IF ~JSONParses(session.location)
    THEN [threw |-> TRUE, value |-> FALSE]
    ELSE LET lastLocation == JSONParse(session.location)
             timeDiff == clock - session.createdAt   \* minutes
             distance == calculateDistance(lastLocation, context.location)
         IN  IF timeDiff < 30 THEN [threw |-> FALSE, value |-> FALSE]
             ELSE [threw |-> FALSE,
                   value |-> distance * 60 > GEOVELOCITY_KM_PER_HOUR * timeDiff]

\* Fault variant: the comparison uses the table's latest row at the time of the
\* derivation (state shared between calls), not the row this call read.
ipLocationChangeOfShared(session, context) ==
    \E r \in BagToSet(assessments) :
        /\ \A q \in BagToSet(assessments) : q.createdAt <= r.createdAt
        /\ r.ipAddress # context.ipAddress

\* lastSession?.ipAddress !== context.ipAddress
ipLocationChangeOf(session, context) ==
    (IF session.present THEN session.ipAddress ELSE Undefined) # context.ipAddress

\* [threw, factors]
calculateRiskFactors(context, telco, device, session, clock, hour, fraudScore) ==
    LET simChangeRecent ==
            IF telco.present /\ telco.hasSimChange
            THEN isWithinHours(telco.simChangeTimestamp, SIM_CHANGE_HOURS_THRESHOLD, clock)
            ELSE FALSE
        imeiMismatch ==
            IF telco.present /\ ~Falsy(telco.currentImei)
               /\ device.present /\ ~Falsy(device.imei)
            THEN telco.currentImei # device.imei
            ELSE FALSE
        geo ==
            IF session.present /\ context.location # Undefined
            THEN checkGeovelocity(session, context, clock)
            ELSE [threw |-> FALSE, value |-> FALSE]
        deviceBindingAge ==
            IF device.present THEN (clock - device.firstSeen) \div 1440 ELSE 0
    IN  [threw |-> geo.threw,
         factors |->
            [simChangeRecent |-> simChangeRecent,
             imeiMismatch |-> imeiMismatch,
             geovelocityAnomaly |-> geo.value,
             deviceBindingAge |-> deviceBindingAge,
             ipLocationChange |-> ipLocationChangeOf(session, context),
             unusualTimeAccess |-> isUnusualAccessTime(context.timezone, hour),
             firstTimeDevice |-> (~device.present) \/ deviceBindingAge = 0,
             fraudHistoryScore |-> fraudScore]]

\* The row storeAssessment inserts.
assessmentRow(context, clock) ==
    [ipAddress |-> context.ipAddress,
     location |-> IF context.location # Undefined
                  THEN JSONStringify(context.location) ELSE SqlNull,
     createdAt |-> clock]

\* Fault variant: the catch block rethrows.
onAssessmentErrorRethrowing ==
    [returned |-> "throw", value |-> NoResult, writes |-> FALSE, caught |-> TRUE]

\* Fault variant: the catch block stores the fallback it returns.
onAssessmentErrorPersisting ==
    [returned |-> "value", value |-> getFailSafeAssessment, writes |-> TRUE,
     caught |-> TRUE]

\* The catch block of assessRisk.
onAssessmentError ==
    [returned |-> "value", value |-> getFailSafeAssessment, writes |-> FALSE,
     caught |-> TRUE]

\* The try block of assessRisk after Promise.all, and its catch:
\* [returned, value, writes, caught].
assessRiskBody(context, assessmentType, telco, device, session, clock, hour, fraudScore) ==
    LET rejected == "rejected" \in {telco.outcome, device.outcome, session.outcome}
        f == calculateRiskFactors(context, telco, device, session, clock, hour, fraudScore)
        riskScore == calculateRiskScore(f.factors, assessmentType)
    IN  IF rejected \/ f.threw THEN onAssessmentError
        ELSE [returned |-> "value",
              value |-> [riskScore |-> riskScore,
                         riskLevel |-> getRiskLevel(riskScore),
                         factors |-> f.factors,
                         stepUpRequired |-> shouldStepUp(riskScore, assessmentType),
                         recommendedAction |-> getRecommendedAction(riskScore, f.factors),
                         confidence |-> calculateConfidence(f.factors, telco)],
              writes |-> TRUE, caught |-> FALSE]

\* The rows a select ... orderBy(desc(createdAt)).limit(1) may return.
LatestRows ==
    {r \in BagToSet(assessments) :
        \A q \in BagToSet(assessments) : q.createdAt <= r.createdAt}

\* ------------------------------------------------------------ actions
\* assessRisk is entered: the three reads are issued together.
AssessRisk(c, context, assessmentType) ==
    /\ pc[c] \in {"idle", "done"}
    /\ writesIssued < MaxWrites
    /\ pc' = [pc EXCEPT ![c] = "fetch"]
    /\ ctx' = [ctx EXCEPT ![c] = context]
    /\ atype' = [atype EXCEPT ![c] = assessmentType]
    /\ telcoData' = [telcoData EXCEPT ![c] = PendingTelco]
    /\ deviceData' = [deviceData EXCEPT ![c] = PendingDevice]
    /\ lastSession' = [lastSession EXCEPT ![c] = PendingSession]
    /\ returned' = [returned EXCEPT ![c] = "none"]
    /\ caught' = [caught EXCEPT ![c] = FALSE]
    /\ result' = [result EXCEPT ![c] = NoResult]
    /\ UNCHANGED <<assessments, pendingWrites, writesIssued, now, scoreVars, pureVars, txVars, seedVars>>

\* Two requests of the same user with the same device context arrive together.
AssessRiskConcurrently(context, assessmentType) ==
    /\ \A c \in Calls : pc[c] = "idle"
    /\ writesIssued = 0
    /\ pc' = [c \in Calls |-> "fetch"]
    /\ ctx' = [c \in Calls |-> context]
    /\ atype' = [c \in Calls |-> assessmentType]
    /\ UNCHANGED <<telcoData, deviceData, lastSession, returned, caught, result,
                   assessments, pendingWrites, writesIssued, now, scoreVars, pureVars, txVars, seedVars>>

\* What a select hands back: nothing when it throws, else the first row, if any.
SelectOutcomes(rows) ==
    {[read |-> "throws", found |-> [any |-> FALSE]]}
    \cup {[read |-> "ok", found |-> [any |-> FALSE]] : x \in {r \in {1} : rows = {}}}
    \cup {[read |-> "ok", found |-> [any |-> TRUE, row |-> r]] : r \in rows}

\* The telco_signal and device_fingerprint tables are written outside the
\* engine: a read may find no row or any of the rows above.
GetTelcoSignals(c) ==
    /\ pc[c] = "fetch"
    /\ telcoData[c].outcome = Pending
    /\ \E o \in SelectOutcomes(TelcoRows) \cup SelectOutcomes({}) :
          telcoData' = [telcoData EXCEPT ![c] = getTelcoSignals(o.read, o.found)]
    /\ UNCHANGED <<pc, ctx, atype, deviceData, lastSession, returned, caught, result,
                   assessments, pendingWrites, writesIssued, now, scoreVars, pureVars, txVars, seedVars>>

GetDeviceFingerprint(c) ==
    /\ pc[c] = "fetch"
    /\ deviceData[c].outcome = Pending
    /\ \E o \in SelectOutcomes(DeviceRows) \cup SelectOutcomes({}) :
          deviceData' = [deviceData EXCEPT ![c] = getDeviceFingerprint(o.read, o.found)]
    /\ UNCHANGED <<pc, ctx, atype, telcoData, lastSession, returned, caught, result,
                   assessments, pendingWrites, writesIssued, now, scoreVars, pureVars, txVars, seedVars>>

GetLastSessionLocation(c) ==
    /\ pc[c] = "fetch"
    /\ lastSession[c].outcome = Pending
    /\ \E o \in SelectOutcomes(LatestRows) :
          lastSession' = [lastSession EXCEPT ![c] = getLastSessionLocation(o.read, o.found)]
    /\ UNCHANGED <<pc, ctx, atype, telcoData, deviceData, returned, caught, result,
                   assessments, pendingWrites, writesIssued, now, scoreVars, pureVars, txVars, seedVars>>

\* Promise.all has resolved: factors (with the fraud_alert read), score,
\* decision, confidence, the detached insert, and the return or the catch.
CompleteAssessment(c) ==
    /\ pc[c] = "fetch"
    /\ Unsettled \cap {telcoData[c].outcome, deviceData[c].outcome, lastSession[c].outcome} = {}
    /\ \E hour \in Hours, alerts \in FraudAlertCounts, fraudReadFails \in BOOLEAN :
         LET out == assessRiskBody(ctx[c], atype[c], telcoData[c], deviceData[c],
                                   lastSession[c], now, hour,
                                   fraudScoreOf(alerts, fraudReadFails))
         IN  /\ returned' = [returned EXCEPT ![c] = out.returned]
             /\ caught' = [caught EXCEPT ![c] = out.caught]
             /\ result' = [result EXCEPT ![c] =
                              IF out.returned = "value" THEN out.value ELSE NoResult]
             /\ pendingWrites' =
                   IF out.writes
                   THEN pendingWrites (+) SetToBag({assessmentRow(ctx[c], now)})
                   ELSE pendingWrites
             /\ writesIssued' = IF out.writes THEN writesIssued + 1 ELSE writesIssued
    /\ pc' = [pc EXCEPT ![c] = "done"]
    /\ UNCHANGED <<ctx, atype, telcoData, deviceData, lastSession, assessments, now,
                   scoreVars, pureVars, txVars, seedVars>>

\* One of the three selects never responds: no timeout is set on the query or
\* on Promise.all, so its promise stays unsettled.
ReadNeverResponds(c, source) ==
    /\ pc[c] = "fetch"
    /\ \/ /\ source = "telco"
          /\ telcoData[c].outcome = Pending
          /\ telcoData' = [telcoData EXCEPT ![c] = NoTelco(Hung)]
          /\ UNCHANGED <<deviceData, lastSession>>
       \/ /\ source = "device"
          /\ deviceData[c].outcome = Pending
          /\ deviceData' = [deviceData EXCEPT ![c] = NoDevice(Hung)]
          /\ UNCHANGED <<telcoData, lastSession>>
       \/ /\ source = "prior"
          /\ lastSession[c].outcome = Pending
          /\ lastSession' = [lastSession EXCEPT ![c] = NoSession(Hung)]
          /\ UNCHANGED <<telcoData, deviceData>>
    /\ UNCHANGED <<pc, ctx, atype, returned, caught, result,
                   assessments, pendingWrites, writesIssued, now, scoreVars, pureVars, txVars, seedVars>>

\* The detached db.insert of storeAssessment settles.
InsertSucceeds ==
    /\ \E row \in BagToSet(pendingWrites) :
          /\ pendingWrites' = pendingWrites (-) SetToBag({row})
          /\ assessments' = assessments (+) SetToBag({row})
    /\ UNCHANGED <<pc, ctx, atype, telcoData, deviceData, lastSession, returned, caught, result,
                   writesIssued, now, scoreVars, pureVars, txVars, seedVars>>

\* Fault variant: the insert's error reaches the callers that hold a result.
onInsertErrorSurfacing(outcomes) ==
    [c \in Calls |-> IF outcomes[c] = "value" THEN "throw" ELSE outcomes[c]]

\* The catch of storeAssessment (and .catch(console.error) at the call
\* site): the error is logged; what the callers were handed stays as it is.
onInsertError(outcomes) == outcomes

\* The insert throws: storeAssessment logs and drops it.
InsertFails ==
    /\ \E row \in BagToSet(pendingWrites) :
          pendingWrites' = pendingWrites (-) SetToBag({row})
    /\ returned' = onInsertError(returned)
    /\ UNCHANGED <<pc, ctx, atype, telcoData, deviceData, lastSession, caught, result,
                   assessments, writesIssued, now, scoreVars, pureVars, txVars, seedVars>>

\* Twenty minutes pass.
Tick ==
    /\ now + 20 <= MaxNow
    /\ now' = now + 20
    /\ UNCHANGED <<pc, ctx, atype, telcoData, deviceData, lastSession, returned, caught, result,
                   assessments, pendingWrites, writesIssued, scoreVars, pureVars, txVars, seedVars>>

\* ------------------------------------------------------------ scoring functions on drawn inputs
AllFactors ==
    [simChangeRecent : BOOLEAN, imeiMismatch : BOOLEAN, geovelocityAnomaly : BOOLEAN,
     deviceBindingAge : 0..MaxBindingAge, ipLocationChange : BOOLEAN,
     unusualTimeAccess : BOOLEAN, firstTimeDevice : BOOLEAN,
     fraudHistoryScore : {0, 5, 10, 15, 20, 25, 30}]

NoPrev == [valid |-> FALSE, factors |-> NoFactors, type |-> "", score |-> -1]
Current == [valid |-> TRUE, factors |-> sFactors, type |-> sType, score |-> sScore]

\* calculateRiskScore is applied to the drawn factor record.
ScoreFactors ==
    /\ sScore = -1
    /\ sFactors \in AllFactors
    /\ sScore' = calculateRiskScore(sFactors, sType)
    /\ UNCHANGED <<sFactors, sType, sPrev, engineVars, pureVars, txVars, seedVars>>

\* The same factors are scored again under another assessment type.
ScoreUnderType(t) ==
    /\ sScore # -1
    /\ t # sType
    /\ sPrev' = Current
    /\ sType' = t
    /\ sScore' = calculateRiskScore(sFactors, t)
    /\ UNCHANGED <<sFactors, engineVars, pureVars, txVars, seedVars>>

\* The same factors are scored again with an older device binding.
ScoreWithBindingAge(d) ==
    /\ sScore # -1
    /\ d > sFactors.deviceBindingAge
    /\ sPrev' = Current
    /\ sFactors' = [sFactors EXCEPT !.deviceBindingAge = d]
    /\ sScore' = calculateRiskScore(sFactors', sType)
    /\ UNCHANGED <<sType, engineVars, pureVars, txVars, seedVars>>

\* ------------------------------------------------------------ decision functions on drawn scores
\* Scores in tenths, every half point from 0.
DrawnScores == {5 * k : k \in 0..MaxHalfPoints}

\* Factor records for the decision: every combination of the six flags.
DecisionFactors ==
    {f \in AllFactors : f.deviceBindingAge = 0 /\ f.fraudHistoryScore \in {0, 30}}

NoDecision ==
    [score |-> -1, factors |-> NoFactors, type |-> "", decided |-> FALSE,
     riskLevel |-> "", stepUpRequired |-> FALSE, recommendedAction |-> ""]

\* Lines 87-89 of assessRisk on a drawn score.
Decide ==
    /\ ~decision.decided
    /\ decision.score # -1
    /\ decision' =
          [decision EXCEPT
              !.decided = TRUE,
              !.riskLevel = getRiskLevel(decision.score),
              !.stepUpRequired = shouldStepUp(decision.score, decision.type),
              !.recommendedAction = getRecommendedAction(decision.score, decision.factors)]
    /\ UNCHANGED <<engineVars, scoreVars, geoRun, fraudAlerts, derivation, txVars, seedVars>>

\* ------------------------------------------------------------ geovelocity rule on drawn rows
NoGeo ==
    [session |-> NoSession("notfound"), context |-> NoContext, clock |-> 0,
     checked |-> FALSE, anomaly |-> FALSE]

\* Prior assessments the read may hand back: none, or a row whose location is
\* NULL, empty, a text that is not JSON, or a stored coordinate; created at
\* minute 0 or 10, or (a clock ahead of this one) at minute 50.
GeoSessions ==
    {NoSession("notfound"), NoSession("error")}
    \cup { [outcome |-> "found", present |-> TRUE, ipAddress |-> "10.0.0.1",
            location |-> l, createdAt |-> t] :
            l \in {SqlNull, "", "Cape Town", JSONStringify("A"), JSONStringify("B")},
            t \in {0, 10, 50} }

GeoClocks == {10 * k : k \in 0..MaxGeoSteps}

\* calculateRiskFactors on the drawn prior row; when checkGeovelocity throws,
\* the caller is handed the fallback's factors.
CheckGeovelocity ==
    /\ ~geoRun.checked
    /\ geoRun.context # NoContext
    /\ LET f == calculateRiskFactors(geoRun.context, NoTelco("notfound"),
                                     NoDevice("notfound"), geoRun.session,
                                     geoRun.clock, 2, 0)
       IN  geoRun' = [geoRun EXCEPT
                        !.checked = TRUE,
                        !.anomaly = IF f.threw THEN FailSafeFactors.geovelocityAnomaly
                                    ELSE f.factors.geovelocityAnomaly]
    /\ UNCHANGED <<engineVars, scoreVars, decision, fraudAlerts, derivation, txVars, seedVars>>

\* ------------------------------------------------------------ two derivations
\* The arguments (now, context, telco, device, prior, assessment type) of both
\* derivations, how many have run, and each run's factors and score.
NoDerivation ==
    [context |-> NoContext, telco |-> NoTelco("notfound"), device |-> NoDevice("notfound"),
     session |-> NoSession("notfound"), clock |-> 0, hour |-> 0, type |-> "",
     runs |-> 0, first |-> NoFactors, firstScore |-> -1,
     second |-> NoFactors, secondScore |-> -1]

DerivationTelco ==
    {NoTelco("notfound"), getTelcoSignals("ok", [any |-> TRUE, row |->
        [hasSimChange |-> TRUE, simChangeTimestamp |-> -60, imei0 |-> "imei-A"]])}
DerivationDevices ==
    {NoDevice("notfound"), getDeviceFingerprint("ok", [any |-> TRUE, row |->
        [imei |-> "imei-B", firstSeen |-> -10 * 1440]])}
DerivationSessions ==
    {NoSession("notfound"), getLastSessionLocation("ok", [any |-> TRUE, row |-> EarlierRow])}

\* calculateRiskFactors (with its own fraud_alert read) and calculateRiskScore
\* on the drawn arguments.
DeriveFactors ==
    /\ derivation.runs = 0
    /\ derivation.type # ""
    /\ LET d == derivation
           f == calculateRiskFactors(d.context, d.telco, d.device, d.session, d.clock,
                                     d.hour, fraudScoreOf(fraudAlerts, FALSE)).factors
       IN  derivation' = [d EXCEPT !.runs = 1, !.first = f,
                                   !.firstScore = calculateRiskScore(f, d.type)]
    /\ UNCHANGED <<engineVars, scoreVars, decision, geoRun, fraudAlerts, txVars, seedVars>>

\* The same derivation on the same arguments, later.
DeriveFactorsAgain ==
    /\ derivation.runs = 1
    /\ LET d == derivation
           f == calculateRiskFactors(d.context, d.telco, d.device, d.session, d.clock,
                                     d.hour, fraudScoreOf(fraudAlerts, FALSE)).factors
       IN  derivation' = [d EXCEPT !.runs = 2, !.second = f,
                                   !.secondScore = calculateRiskScore(f, d.type)]
    /\ UNCHANGED <<engineVars, scoreVars, decision, geoRun, fraudAlerts, txVars, seedVars>>

\* The alerts route records one more fraud alert of the user.
InsertFraudAlert ==
    /\ derivation.runs = 1
    /\ fraudAlerts < MaxAlerts
    /\ fraudAlerts' = fraudAlerts + 1
    /\ UNCHANGED <<engineVars, scoreVars, decision, geoRun, derivation, txVars, seedVars>>

\* ------------------------------------------------------------ transaction status
TxStatuses == {"PENDING", "APPROVED", "DECLINED", "ESCROW", "COMPLETED", "CANCELLED"}

\* PATCH /payments/status accepts these.
validStatuses == {"PENDING", "APPROVED", "COMPLETED", "DECLINED", "ESCROW"}

\* Fault variant: a cancelled transaction may be reopened.
validTransitionsReopening(currentStatus) ==
    CASE currentStatus = "PENDING" -> {"APPROVED", "DECLINED", "ESCROW", "CANCELLED"}
      [] currentStatus = "APPROVED" -> {"COMPLETED", "ESCROW", "CANCELLED"}
      [] currentStatus = "ESCROW" -> {"APPROVED", "COMPLETED", "DECLINED"}
      [] currentStatus = "DECLINED" -> {"PENDING", "CANCELLED"}
      [] currentStatus = "COMPLETED" -> {"CANCELLED"}
      [] currentStatus = "CANCELLED" -> {"PENDING"}
      [] OTHER -> {}

\* changeStatus: the statuses allowed after each status.
validTransitions(currentStatus) ==
    CASE currentStatus = "PENDING" -> {"APPROVED", "DECLINED", "ESCROW", "CANCELLED"}
      [] currentStatus = "APPROVED" -> {"COMPLETED", "ESCROW", "CANCELLED"}
      [] currentStatus = "ESCROW" -> {"APPROVED", "COMPLETED", "DECLINED"}
      [] currentStatus = "DECLINED" -> {"PENDING", "CANCELLED"}
      [] currentStatus = "COMPLETED" -> {"CANCELLED"}
      [] OTHER -> {}

\* Fault variant: a challenged payment is created APPROVED.
initialStatusChallengeApproves(recommendedAction, stepUpRequired) ==
    CASE recommendedAction = "BLOCK" -> "DECLINED"
      [] recommendedAction = "ESCROW" -> "ESCROW"
      [] recommendedAction = "CHALLENGE" -> "APPROVED"
      [] recommendedAction = "ALLOW" -> IF stepUpRequired THEN "PENDING" ELSE "APPROVED"
      [] OTHER -> "PENDING"

\* POST /payments/initiate: the status of the new transaction.
initialStatus(recommendedAction, stepUpRequired) ==
    CASE recommendedAction = "BLOCK" -> "DECLINED"
      [] recommendedAction = "ESCROW" -> "ESCROW"
      [] recommendedAction = "CHALLENGE" -> "PENDING"
      [] recommendedAction = "ALLOW" -> IF stepUpRequired THEN "PENDING" ELSE "APPROVED"
      [] OTHER -> "PENDING"

\* Transactions as the initiate route inserts them, one per decision: the
\* metadata has no statusChanges yet.
CreatedTransactions ==
    { [status |-> initialStatus(getRecommendedAction(score, FailSafeFactors),
                                shouldStepUp(score, "TRANSACTION")),
       riskScore |-> score,
       stepUpRequired |-> shouldStepUp(score, "TRANSACTION")] :
      score \in {200, 450, 750, 900} }

\* Calls of the agent's changeStatus tool that may be in flight together.
Agents == {"a1", "a2"}
\* The agent that issues its calls one after the other.
SingleAgent == {"a1"}

\* changeStatus between its select and its update: the arguments and the row
\* it read; outcome is what the last finished call returned.
NoAgent ==
    [at |-> "idle", outcome |-> "none", currentStatus |-> "", currentRiskScore |-> 0,
     statusChanges |-> <<>>, newStatus |-> "", forceChange |-> FALSE,
     escrowDuration |-> 0, riskScoreOverride |-> -1]

\* The error changeStatus returns instead of updating, or "none".
changeStatusError(a) ==
    IF ~a.forceChange /\ a.newStatus \notin validTransitions(a.currentStatus)
    THEN "Invalid status transition"
    ELSE IF a.newStatus = "ESCROW" /\ a.escrowDuration = 0
    THEN "Escrow duration is required"
    ELSE IF a.newStatus = "COMPLETED" /\ a.currentRiskScore > 700 /\ ~a.forceChange
    THEN "Cannot complete high-risk transaction"
    ELSE "none"

\* PATCH /payments/status: one UPDATE of status (and updatedAt).
PatchStatus(status) ==
    /\ txStatus # ""
    /\ status \in validStatuses
    /\ Len(txHistory) <= MaxTxWrites
    /\ txStatus' = status
    /\ txHistory' = Append(txHistory, status)
    /\ UNCHANGED <<txRiskScore, txStepUpRequired, txStatusChanges, agent,
                   txEscrowReleaseTime, txForced, initiated,
                   engineVars, scoreVars, pureVars, seedVars>>

\* POST /payments/status with action COMPLETE_STEP_UP.
CompleteStepUp ==
    /\ txStatus # ""
    /\ Len(txHistory) <= MaxTxWrites
    /\ txStatus' = "COMPLETED"
    /\ txStepUpRequired' = FALSE
    /\ txHistory' = Append(txHistory, "COMPLETED")
    /\ UNCHANGED <<txRiskScore, txStatusChanges, agent, txEscrowReleaseTime, txForced,
                   initiated, engineVars, scoreVars, pureVars, seedVars>>

\* changeStatus: the select of the current transaction.  escrowDuration 0 is
\* a missing (or zero) duration, riskScoreOverride -1 a missing override.
ChangeStatusRead(a, newStatus, forceChange, escrowDuration, riskScoreOverride) ==
    /\ txStatus # ""
    /\ agent[a].at = "idle"
    /\ Len(txHistory) <= MaxTxWrites
    /\ agent' = [agent EXCEPT ![a] =
                    [at |-> "read", outcome |-> "none", currentStatus |-> txStatus,
                     currentRiskScore |-> txRiskScore, statusChanges |-> txStatusChanges,
                     newStatus |-> newStatus, forceChange |-> forceChange,
                     escrowDuration |-> escrowDuration,
                     riskScoreOverride |-> riskScoreOverride]]
    /\ txForced' = (txForced \/ forceChange)
    /\ UNCHANGED <<txStatus, txRiskScore, txStepUpRequired, txStatusChanges, txHistory,
                   txEscrowReleaseTime, initiated,
                   engineVars, scoreVars, pureVars, seedVars>>

\* changeStatus: the validation of what was read, then the UPDATE, which
\* writes the metadata built from the row read earlier.
ChangeStatusWrite(a) ==
    /\ agent[a].at = "read"
    /\ IF changeStatusError(agent[a]) # "none"
       THEN /\ agent' = [agent EXCEPT ![a] = [NoAgent EXCEPT !.outcome = "error"]]
            /\ UNCHANGED <<txStatus, txRiskScore, txStepUpRequired, txStatusChanges,
                           txHistory, txEscrowReleaseTime>>
       ELSE /\ txStatus' = agent[a].newStatus
            /\ txStatusChanges' =
                  Append(agent[a].statusChanges,
                         [from |-> agent[a].currentStatus, to |-> agent[a].newStatus])
            /\ txStepUpRequired' =
                  IF agent[a].newStatus = "APPROVED" THEN FALSE ELSE txStepUpRequired
            /\ txRiskScore' =
                  IF agent[a].riskScoreOverride # -1 THEN agent[a].riskScoreOverride
                  ELSE txRiskScore
            /\ txEscrowReleaseTime' =
                  IF agent[a].newStatus = "ESCROW" THEN now + agent[a].escrowDuration * 60
                  ELSE txEscrowReleaseTime
            /\ txHistory' = Append(txHistory, agent[a].newStatus)
            /\ agent' = [agent EXCEPT ![a] = [NoAgent EXCEPT !.outcome = "success"]]
    /\ UNCHANGED <<txForced, initiated>>
    /\ UNCHANGED <<engineVars, scoreVars, pureVars, seedVars>>

\* ------------------------------------------------------------ payment initiation
NoInitiation ==
    [done |-> FALSE, assessmentType |-> "", recommendedAction |-> "",
     stepUpRequired |-> FALSE, status |-> "", message |-> ""]

\* Amounts around the high-value limit of 10000.
Amounts == {500, 10000, 25000}

\* What assessRisk may hand the route under an assessment type: a computed
\* result of some factor record, or the fallback.
EngineResults(assessmentType) ==
    { [riskScore |-> calculateRiskScore(f, assessmentType),
       stepUpRequired |-> shouldStepUp(calculateRiskScore(f, assessmentType),
                                       assessmentType),
       recommendedAction |-> getRecommendedAction(calculateRiskScore(f, assessmentType), f)]
      : f \in AllFactors }
    \cup { [riskScore |-> getFailSafeAssessment.riskScore,
             stepUpRequired |-> getFailSafeAssessment.stepUpRequired,
             recommendedAction |-> getFailSafeAssessment.recommendedAction] }

getStatusMessage(status, stepUpRequired) ==
    CASE status = "DECLINED" -> "Transaction blocked due to high fraud risk. Please contact support."
      [] status = "ESCROW" -> "Transaction placed in secure escrow for additional verification."
      [] status = "PENDING" ->
            IF stepUpRequired THEN "Additional authentication required for this transaction."
            ELSE "Transaction pending processing."
      [] status = "APPROVED" -> "Transaction approved and processing."
      [] OTHER -> "Transaction status unknown."

\* POST /payments/initiate: the assessment, the status switch, the insert of
\* the transaction and the response.
InitiatePayment(amount) ==
    /\ txStatus = ""
    /\ ~initiated.done
    /\ LET assessmentType == IF amount > 10000 THEN "HIGH_VALUE_TRANSACTION"
                             ELSE "TRANSACTION"
       IN  \E riskResult \in EngineResults(assessmentType) :
             LET status == initialStatus(riskResult.recommendedAction,
                                         riskResult.stepUpRequired)
             IN  /\ txStatus' = status
                 /\ txEscrowReleaseTime' =
                       IF riskResult.recommendedAction = "ESCROW" THEN now + 24 * 60
                       ELSE -1
                 /\ txRiskScore' = riskResult.riskScore
                 /\ txStepUpRequired' = riskResult.stepUpRequired
                 /\ txHistory' = <<status>>
                 /\ initiated' =
                       [done |-> TRUE, assessmentType |-> assessmentType,
                        recommendedAction |-> riskResult.recommendedAction,
                        stepUpRequired |-> riskResult.stepUpRequired,
                        status |-> status,
                        message |-> getStatusMessage(status, riskResult.stepUpRequired)]
    /\ UNCHANGED <<txStatusChanges, agent, txForced, engineVars, scoreVars, pureVars,
                   seedVars>>

\* ------------------------------------------------------------ demo seeding
SeedRequests == {"r1", "r2"}
DemoTables == {"payment_transaction", "fraud_alert", "risk_assessment", "device_fingerprint"}

NoSeedRequest == [at |-> "idle", stamp |-> "", pending |-> {}, failed |-> FALSE,
                  response |-> ""]

\* Values of Date.now() that go into the ids of a request's rows: two requests
\* in the same millisecond build the same ids.
SeedStamps == {"ms1", "ms2"}

\* POST /demo/seed up to its inserts: the select of the user's transactions
\* and, when it finds none, the four inserts issued together by Promise.all.
SeedCheck(r, stamp) ==
    /\ seedReq[r].at \in {"idle", "done"}
    /\ seedReq' = [seedReq EXCEPT ![r] =
          IF demoRows["payment_transaction"] # {}
          THEN [NoSeedRequest EXCEPT !.at = "done", !.response = "existing"]
          ELSE [NoSeedRequest EXCEPT !.at = "insert", !.stamp = stamp,
                                     !.pending = DemoTables]]
    /\ UNCHANGED <<demoRows, engineVars, scoreVars, pureVars, txVars>>

\* One of the four inserts runs: it adds the request's set of rows, or fails
\* on the primary key when rows with the same ids are there already.
SeedInsert(r, table) ==
    /\ seedReq[r].at = "insert"
    /\ table \in seedReq[r].pending
    /\ IF seedReq[r].stamp \in demoRows[table]
       THEN /\ seedReq' = [seedReq EXCEPT ![r].pending = @ \ {table}, ![r].failed = TRUE]
            /\ UNCHANGED demoRows
       ELSE /\ seedReq' = [seedReq EXCEPT ![r].pending = @ \ {table}]
            /\ demoRows' = [demoRows EXCEPT ![table] = @ \cup {seedReq[r].stamp}]
    /\ UNCHANGED <<engineVars, scoreVars, pureVars, txVars>>

\* Promise.all has settled: the response.
SeedRespond(r) ==
    /\ seedReq[r].at = "insert"
    /\ seedReq[r].pending = {}
    /\ seedReq' = [seedReq EXCEPT ![r].at = "done",
                                  ![r].response = IF seedReq[r].failed THEN "error"
                                                  ELSE "seeded"]
    /\ UNCHANGED <<demoRows, engineVars, scoreVars, pureVars, txVars>>

\* ------------------------------------------------------------ specifications
EngineInit ==
    /\ pc = [c \in Calls |-> "idle"]
    /\ ctx = [c \in Calls |-> NoContext]
    /\ atype = [c \in Calls |-> ""]
    /\ telcoData = [c \in Calls |-> PendingTelco]
    /\ deviceData = [c \in Calls |-> PendingDevice]
    /\ lastSession = [c \in Calls |-> PendingSession]
    /\ returned = [c \in Calls |-> "none"]
    /\ caught = [c \in Calls |-> FALSE]
    /\ result = [c \in Calls |-> NoResult]
    /\ pendingWrites = EmptyBag
    /\ writesIssued = 0
    /\ now = 0

ScoreIdle ==
    /\ sFactors = NoFactors
    /\ sType = ""
    /\ sScore = -1
    /\ sPrev = NoPrev

\* One caller issues requests one after the other; the inserts are detached.
DecisionIdle == decision = NoDecision
GeoIdle == geoRun = NoGeo
DerivationIdle == fraudAlerts = 0 /\ derivation = NoDerivation
TxIdle ==
    /\ txStatus = ""
    /\ txRiskScore = 0
    /\ txStepUpRequired = FALSE
    /\ txStatusChanges = <<>>
    /\ txHistory = <<>>
    /\ agent = [a \in Agents |-> NoAgent]
    /\ txEscrowReleaseTime = -1
    /\ txForced = FALSE
    /\ initiated = NoInitiation

SeedIdle ==
    /\ seedReq = [r \in SeedRequests |-> NoSeedRequest]
    /\ demoRows = [t \in DemoTables |-> {}]

Init ==
    /\ EngineInit
    /\ assessments \in {EmptyBag, SetToBag({SeedRow}), SetToBag({ForeignRow}),
                       SetToBag({EarlierRow})}
    /\ ScoreIdle /\ DecisionIdle /\ GeoIdle /\ DerivationIdle /\ TxIdle /\ SeedIdle

Next ==
    \/ \E c \in Sequential, context \in Contexts, t \in AssessmentTypes :
          AssessRisk(c, context, t)
    \/ \E c \in Sequential : GetTelcoSignals(c)
    \/ \E c \in Sequential : GetDeviceFingerprint(c)
    \/ \E c \in Sequential : GetLastSessionLocation(c)
    \/ \E c \in Sequential : CompleteAssessment(c)
    \/ InsertSucceeds
    \/ InsertFails
    \/ Tick

Spec == Init /\ [][Next]_vars

\* The scoring functions on every factor record of the bounded domain.
ScoreInit ==
    /\ EngineInit
    /\ assessments = EmptyBag
    /\ sFactors \in AllFactors
    /\ sType \in AssessmentTypes
    /\ sScore = -1
    /\ sPrev = NoPrev
    /\ DecisionIdle /\ GeoIdle /\ DerivationIdle /\ TxIdle /\ SeedIdle

ScoreNext ==
    \/ ScoreFactors
    \/ \E t \in AssessmentTypes : ScoreUnderType(t)
    \/ \E d \in 0..MaxBindingAge : ScoreWithBindingAge(d)

SpecScore == ScoreInit /\ [][ScoreNext]_vars

\* One LOGIN call whose reads respond, fail or never respond.  Every read that
\* can respond eventually does, and the engine's own continuation runs as
\* soon as Promise.all resolves.
HangContexts == {c \in Contexts : c.location = "A"}

HangNext ==
    \/ \E c \in Sequential, context \in HangContexts : AssessRisk(c, context, "LOGIN")
    \/ \E c \in Sequential : GetTelcoSignals(c)
    \/ \E c \in Sequential : GetDeviceFingerprint(c)
    \/ \E c \in Sequential : GetLastSessionLocation(c)
    \/ \E c \in Sequential, source \in {"telco", "device", "prior"} :
          ReadNeverResponds(c, source)
    \/ \E c \in Sequential : CompleteAssessment(c)
    \/ InsertSucceeds
    \/ InsertFails

HangFairness ==
    \A c \in Sequential :
        /\ WF_vars(GetTelcoSignals(c))
        /\ WF_vars(GetDeviceFingerprint(c))
        /\ WF_vars(GetLastSessionLocation(c))
        /\ WF_vars(CompleteAssessment(c))

SpecHang == Init /\ [][HangNext]_vars /\ HangFairness

\* The geovelocity rule on every drawn prior row, context and clock.
GeoInit ==
    /\ EngineInit
    /\ assessments = EmptyBag
    /\ ScoreIdle /\ DecisionIdle /\ DerivationIdle /\ TxIdle /\ SeedIdle
    /\ \E session \in GeoSessions, context \in Contexts, clock \in GeoClocks :
          geoRun = [NoGeo EXCEPT !.session = session, !.context = context,
                                 !.clock = clock]

GeoNext == CheckGeovelocity

SpecGeo == GeoInit /\ [][GeoNext]_vars

\* Two concurrent calls within one minute.  The user has no telco row and no
\* fraud alert; the device is unknown or its read fails.
ConcurrentInit ==
    /\ EngineInit
    /\ assessments \in {EmptyBag, SetToBag({SeedRow}), SetToBag({EarlierRow})}
    /\ ScoreIdle /\ DecisionIdle /\ GeoIdle /\ DerivationIdle /\ TxIdle /\ SeedIdle

ConcurrentNext ==
    \/ \E context \in Contexts, t \in {"LOGIN", "HIGH_VALUE_TRANSACTION"} :
          AssessRiskConcurrently(context, t)
    \/ \E c \in Calls : GetTelcoSignals(c) /\ telcoData'[c].outcome = "notfound"
    \/ \E c \in Calls : GetDeviceFingerprint(c) /\ ~deviceData'[c].present
    \/ \E c \in Calls : GetLastSessionLocation(c)
    \/ \E c \in Calls : CompleteAssessment(c) /\ result'[c].factors.fraudHistoryScore = 0
    \/ InsertSucceeds
    \/ InsertFails

SpecConcurrent == ConcurrentInit /\ [][ConcurrentNext]_vars

\* Two derivations from the same arguments, with the alerts route in between.
DerivationInit ==
    /\ EngineInit
    /\ assessments = EmptyBag
    /\ ScoreIdle /\ DecisionIdle /\ GeoIdle /\ TxIdle /\ SeedIdle
    /\ fraudAlerts \in {0, 3}
    /\ \E context \in Contexts, telco \in DerivationTelco, device \in DerivationDevices,
          session \in DerivationSessions, t \in {"LOGIN", "HIGH_VALUE_TRANSACTION"} :
          derivation = [NoDerivation EXCEPT
                           !.context = context, !.telco = telco, !.device = device,
                           !.session = session, !.clock = MaxNow, !.hour = 3, !.type = t]

DerivationNext == DeriveFactors \/ InsertFraudAlert \/ DeriveFactorsAgain

SpecDerivation == DerivationInit /\ [][DerivationNext]_vars

\* One transaction after its creation: the dashboard, the step-up page and the
\* agent change its status in any order.
TxInit ==
    /\ EngineInit
    /\ assessments = EmptyBag
    /\ ScoreIdle /\ DecisionIdle /\ GeoIdle /\ DerivationIdle
    /\ \E t \in CreatedTransactions :
          /\ txStatus = t.status
          /\ txRiskScore = t.riskScore
          /\ txStepUpRequired = t.stepUpRequired
          /\ txHistory = <<t.status>>
          /\ txEscrowReleaseTime = IF t.status = "ESCROW" THEN 24 * 60 ELSE -1
    /\ txStatusChanges = <<>>
    /\ agent = [a \in Agents |-> NoAgent]
    /\ txForced = FALSE
    /\ initiated = NoInitiation
    /\ SeedIdle

TxNext ==
    \/ \E status \in validStatuses : PatchStatus(status)
    \/ CompleteStepUp
    \/ \E a \in SingleAgent, newStatus \in TxStatuses, forceChange \in BOOLEAN,
          escrowDuration \in {0, 24}, riskScoreOverride \in {-1, 300} :
          ChangeStatusRead(a, newStatus, forceChange, escrowDuration, riskScoreOverride)
    \/ \E a \in SingleAgent : ChangeStatusWrite(a)

SpecTx == TxInit /\ [][TxNext]_vars

\* Seed requests of one user without data, possibly two at a time.
SeedInit ==
    /\ EngineInit
    /\ assessments = EmptyBag
    /\ ScoreIdle /\ DecisionIdle /\ GeoIdle /\ DerivationIdle /\ TxIdle /\ SeedIdle

SeedNext ==
    \/ \E r \in SeedRequests, stamp \in SeedStamps : SeedCheck(r, stamp)
    \/ \E r \in SeedRequests, table \in DemoTables : SeedInsert(r, table)
    \/ \E r \in SeedRequests : SeedRespond(r)

SpecSeed == SeedInit /\ [][SeedNext]_vars

\* One payment initiation on every result the engine may return.
InitiateInit ==
    /\ EngineInit
    /\ assessments = EmptyBag
    /\ ScoreIdle /\ DecisionIdle /\ GeoIdle /\ DerivationIdle /\ TxIdle /\ SeedIdle

InitiateNext == \E amount \in Amounts : InitiatePayment(amount)

SpecInitiate == InitiateInit /\ [][InitiateNext]_vars

\* The agent alone: unforced changeStatus calls, one after the other.
AgentNext ==
    \/ \E a \in SingleAgent, newStatus \in TxStatuses, escrowDuration \in {0, 24},
          riskScoreOverride \in {-1, 300} :
          ChangeStatusRead(a, newStatus, FALSE, escrowDuration, riskScoreOverride)
    \/ \E a \in SingleAgent : ChangeStatusWrite(a)

SpecAgent == TxInit /\ [][AgentNext]_vars

\* Two unforced changeStatus calls that may overlap.
AgentsNext ==
    \/ \E a \in Agents, newStatus \in TxStatuses, escrowDuration \in {0, 24} :
          ChangeStatusRead(a, newStatus, FALSE, escrowDuration, -1)
    \/ \E a \in Agents : ChangeStatusWrite(a)

SpecAgents == TxInit /\ [][AgentsNext]_vars

\* The decision functions on every drawn score, factor record and type.
DecisionInit ==
    /\ EngineInit
    /\ assessments = EmptyBag
    /\ ScoreIdle /\ GeoIdle /\ DerivationIdle /\ TxIdle /\ SeedIdle
    /\ \E s \in DrawnScores, f \in DecisionFactors, t \in AssessmentTypes :
          decision = [NoDecision EXCEPT !.score = s, !.factors = f, !.type = t]

DecisionNext == Decide

SpecDecision == DecisionInit /\ [][DecisionNext]_vars

\* ------------------------------------------------------------ properties
Done(c) == pc[c] = "done"
\* The call returned a result computed by the try block.
Computed(c) == Done(c) /\ returned[c] = "value" /\ ~caught[c]
Absent(slot) == slot.outcome \in {"error", "notfound"}

WellFormedFactors(f) ==
    /\ f.simChangeRecent \in BOOLEAN
    /\ f.imeiMismatch \in BOOLEAN
    /\ f.geovelocityAnomaly \in BOOLEAN
    /\ f.deviceBindingAge >= 0
    /\ f.ipLocationChange \in BOOLEAN
    /\ f.unusualTimeAccess \in BOOLEAN
    /\ f.firstTimeDevice \in BOOLEAN
    /\ f.fraudHistoryScore \in 0..30

WellFormedResult(r) ==
    /\ r.riskScore \in 0..1000
    /\ r.riskLevel \in Levels
    /\ WellFormedFactors(r.factors)
    /\ r.stepUpRequired \in BOOLEAN
    /\ r.recommendedAction \in Actions
    /\ r.confidence \in 0..100

\* The fixed result of section 4.8, written out.
FixedFallback ==
    [riskScore |-> 500, riskLevel |-> "MEDIUM",
     factors |-> [simChangeRecent |-> FALSE, imeiMismatch |-> FALSE,
                  geovelocityAnomaly |-> FALSE, deviceBindingAge |-> 0,
                  ipLocationChange |-> FALSE, unusualTimeAccess |-> FALSE,
                  firstTimeDevice |-> TRUE, fraudHistoryScore |-> 0],
     stepUpRequired |-> TRUE, recommendedAction |-> "CHALLENGE", confidence |-> 30]

\* C1: assessRisk never throws to its caller: whatever the store reads and
\* the persistence write do, a finished call has handed back a well-formed
\* RiskAssessmentResult.
C1_NeverThrows ==
    \A c \in Calls :
        Done(c) => returned[c] = "value" /\ WellFormedResult(result[c])

\* C1 witness: a call finished after a read threw and an exception reached
\* the catch block.
C1_Witness ==
    \E c \in Calls :
        /\ Done(c)
        /\ caught[c]
        /\ "error" \in {telcoData[c].outcome, deviceData[c].outcome}

\* C2: in every computed result whose factors have simChangeRecent and
\* imeiMismatch, recommendedAction is BLOCK, whatever the score.
C2_HardOverride ==
    \A c \in Calls :
        (Computed(c) /\ result[c].factors.simChangeRecent
                     /\ result[c].factors.imeiMismatch)
        => result[c].recommendedAction = "BLOCK"

\* C2 witness: the override decides: both factors hold and the score is
\* below every score threshold of BLOCK and ESCROW.
C2_Witness ==
    \E c \in Calls :
        /\ Computed(c)
        /\ result[c].factors.simChangeRecent
        /\ result[c].factors.imeiMismatch
        /\ result[c].riskScore < 700

\* C3: in every returned result, computed or fail-safe, the score is within
\* 0..100 (0..1000 tenths) and the confidence within 0..100.
C3_Clamping ==
    \A c \in Calls :
        (Done(c) /\ returned[c] = "value")
        => /\ result[c].riskScore >= 0 /\ result[c].riskScore <= 1000
           /\ result[c].confidence >= 0 /\ result[c].confidence <= 100

\* C3 witness: a computed result whose unclamped sum exceeds 100 and whose
\* confidence reaches 100.
C3_Witness ==
    \E c \in Calls :
        /\ Computed(c)
        /\ calculateRiskScoreUnclamped(result[c].factors, atype[c]) > 1000
        /\ result[c].riskScore = 1000
        /\ result[c].confidence = 100

\* C4: whichever of the three reads fail or find nothing, the call is not
\* aborted by that (the catch block runs only on a prior assessment that
\* was read), and the factors fed by each absent source take their
\* defaults: no telco data, no SIM change and no IMEI mismatch; no prior
\* assessment, no geovelocity anomaly and no IP change; no device record,
\* binding age 0 and first-time device.
C4_SoftFailDefaults ==
    \A c \in Calls :
        Done(c) =>
            /\ caught[c] => lastSession[c].present
            /\ ~caught[c] =>
                /\ Absent(telcoData[c]) =>
                      /\ ~result[c].factors.simChangeRecent
                      /\ ~result[c].factors.imeiMismatch
                /\ Absent(lastSession[c]) =>
                      /\ ~result[c].factors.geovelocityAnomaly
                      /\ ~result[c].factors.ipLocationChange
                /\ Absent(deviceData[c]) =>
                      /\ result[c].factors.deviceBindingAge = 0
                      /\ result[c].factors.firstTimeDevice

\* The select of the read threw (absorbed by the helper, or escaping it).
Raised(slot) == slot.outcome \in {"error", "rejected"}

AllReadsRaised(c) ==
    /\ Raised(telcoData[c])
    /\ Raised(deviceData[c])
    /\ Raised(lastSession[c])

C6_FallbackIsConstant ==
    \A c \in Calls :
        (Done(c) /\ caught[c]) => returned[c] = "value" /\ result[c] = FixedFallback

\* C6 witness: a high-value call finished through the catch block on a prior
\* assessment whose location text is not JSON, with telco data at hand.
C6_Witness ==
    \E c \in Calls :
        /\ Done(c)
        /\ caught[c]
        /\ atype[c] = "HIGH_VALUE_TRANSACTION"
        /\ lastSession[c].present
        /\ ~JSONParses(lastSession[c].location)
        /\ telcoData[c].present

\* C7: brand-new device (no device record), no telco record, no prior
\* assessment, no fraud alerts, no unusual-hour access, LOGIN: score 20,
\* LOW, ALLOW, no step-up.
C7_NewDeviceLogin ==
    \A c \in Calls :
        ( /\ Done(c)
          /\ atype[c] = "LOGIN"
          /\ deviceData[c].outcome = "notfound"
          /\ telcoData[c].outcome = "notfound"
          /\ lastSession[c].outcome = "notfound"
          /\ result[c].factors.fraudHistoryScore = 0
          /\ ~result[c].factors.unusualTimeAccess )
        => /\ result[c].riskScore = 200
           /\ result[c].riskLevel = "LOW"
           /\ result[c].recommendedAction = "ALLOW"
           /\ result[c].stepUpRequired = FALSE

\* C8: for an assessment type other than the three known ones, the weights
\* and the step-up threshold applied are those of HIGH_VALUE_TRANSACTION.
C8_UnknownTypeFailsClosed ==
    \A c \in Calls :
        (Computed(c) /\ atype[c] \notin KnownTypes) =>
            /\ result[c].riskScore
                  = calculateRiskScore(result[c].factors, "HIGH_VALUE_TRANSACTION")
            /\ result[c].stepUpRequired = (result[c].riskScore >= 400)

SameButType ==
    /\ sPrev.valid
    /\ sPrev.factors = sFactors
    /\ sPrev.type = "TRANSACTION"
    /\ sType = "HIGH_VALUE_TRANSACTION"

\* C9 as stated: the same factors with simChangeRecent score strictly
\* higher under HIGH_VALUE_TRANSACTION than under TRANSACTION.
C9_HighValueStrictlyHigher ==
    (SameButType /\ sFactors.simChangeRecent) => sScore > sPrev.score

\* C9 amended: the same factors with simChangeRecent never score lower under
\* HIGH_VALUE_TRANSACTION than under TRANSACTION, and strictly higher
\* whenever the TRANSACTION score is below the ceiling of 100.
C9_HighValueHigherBelowCeiling ==
    (SameButType /\ sFactors.simChangeRecent) =>
        /\ sScore >= sPrev.score
        /\ sPrev.score < 1000 => sScore > sPrev.score

\* C9 witness: factors with simChangeRecent scored below 100 under
\* TRANSACTION, then scored under HIGH_VALUE_TRANSACTION.
C9_Witness ==
    SameButType /\ sFactors.simChangeRecent /\ sPrev.score < 1000 /\ sPrev.score > 0

SameButOlderBinding ==
    /\ sPrev.valid
    /\ sPrev.type = sType
    /\ sPrev.factors.deviceBindingAge >= 0
    /\ sPrev.factors.deviceBindingAge <= sFactors.deviceBindingAge
    /\ sPrev.factors =
          [sFactors EXCEPT !.deviceBindingAge = sPrev.factors.deviceBindingAge]

\* C10: with everything else fixed, an older device binding never raises
\* the score, and lowers it by at most 20 points.
C10_BindingAgeMonotone ==
    SameButOlderBinding =>
        /\ sScore <= sPrev.score
        /\ sPrev.score - sScore <= 200

\* C10 witness: the binding age went from within the 7-day threshold to 10
\* days or more and the score fell by the full 20 points.
C10_Witness ==
    /\ SameButOlderBinding
    /\ sPrev.factors.deviceBindingAge <= MIN_DEVICE_BINDING_DAYS
    /\ sFactors.deviceBindingAge >= 10
    /\ sPrev.score - sScore = 200

\* C11: the recommended action is decided in strict order, first match wins:
\* BLOCK when score >= 85 or (simChangeRecent and imeiMismatch), otherwise
\* ESCROW when score >= 70, otherwise CHALLENGE when score >= 40, otherwise
\* ALLOW, for every drawn score and factor record.
C11_ActionReference ==
    decision.decided =>
        LET s == decision.score
            f == decision.factors
        IN  /\ (s >= 850 \/ (f.simChangeRecent /\ f.imeiMismatch))
                    => decision.recommendedAction = "BLOCK"
            /\ (~(s >= 850 \/ (f.simChangeRecent /\ f.imeiMismatch)) /\ s >= 700)
                    => decision.recommendedAction = "ESCROW"
            /\ (~(s >= 850 \/ (f.simChangeRecent /\ f.imeiMismatch)) /\ s < 700 /\ s >= 400)
                    => decision.recommendedAction = "CHALLENGE"
            /\ (~(s >= 850 \/ (f.simChangeRecent /\ f.imeiMismatch)) /\ s < 400)
                    => decision.recommendedAction = "ALLOW"

\* A score of 90 without the override pair is BLOCK, not ESCROW.
C11_Witness ==
    /\ decision.decided
    /\ decision.score = 900
    /\ ~decision.factors.simChangeRecent
    /\ decision.recommendedAction = "BLOCK"

\* C12: tiering is exact at its boundaries: CRITICAL iff score >= 80, HIGH iff
\* 60 <= score < 80, MEDIUM iff 30 <= score < 60, LOW iff score < 30.
C12_TierBoundaries ==
    decision.decided =>
        LET s == decision.score
        IN  /\ decision.riskLevel = "CRITICAL" <=> s >= 800
            /\ decision.riskLevel = "HIGH" <=> (s >= 600 /\ s < 800)
            /\ decision.riskLevel = "MEDIUM" <=> (s >= 300 /\ s < 600)
            /\ decision.riskLevel = "LOW" <=> s < 300

\* Exactly 80 is CRITICAL.
C12_Witness ==
    decision.decided /\ decision.score = 800 /\ decision.riskLevel = "CRITICAL"

\* C13: stepUpRequired is true iff score >= 40 under HIGH_VALUE_TRANSACTION,
\* and iff score >= 50 under every other assessment type.
C13_StepUpThresholds ==
    decision.decided =>
        IF decision.type = "HIGH_VALUE_TRANSACTION"
        THEN decision.stepUpRequired <=> decision.score >= 400
        ELSE decision.stepUpRequired <=> decision.score >= 500

\* Exactly 40 under HIGH_VALUE_TRANSACTION requires step-up.
C13_Witness ==
    /\ decision.decided
    /\ decision.type = "HIGH_VALUE_TRANSACTION"
    /\ decision.score = 400
    /\ decision.stepUpRequired

\* C14: fire-and-forget persistence: a computed result is returned in the
\* step that issues the insert, before the row is in the table; the settling
\* of an insert, by success or by failure, changes no call's result or
\* outcome, and a failed insert is not issued again.
C14_FireAndForget ==
    [][ /\ \A c \in Calls :
              (returned[c] = "none" /\ returned'[c] = "value" /\ ~caught'[c])
                  => /\ BagCardinality(pendingWrites') = BagCardinality(pendingWrites) + 1
                     /\ assessments' = assessments
        /\ BagCardinality(pendingWrites') < BagCardinality(pendingWrites)
              => /\ result' = result
                 /\ returned' = returned
                 /\ caught' = caught
                 /\ pc' = pc
                 /\ writesIssued' = writesIssued
                 /\ BagCardinality(pendingWrites') = BagCardinality(pendingWrites) - 1
                 /\ BagCardinality(assessments') <= BagCardinality(assessments) + 1
      ]_vars

\* A call holds its computed result and its insert has failed: nothing is
\* pending, nothing was added to the table.
C14_Witness ==
    /\ Computed("c1")
    /\ writesIssued = 1
    /\ pendingWrites = EmptyBag
    /\ BagCardinality(assessments) = 0

\* C15: a read that never responds is treated like a failed read: a call
\* that is awaiting its reads eventually returns a result.
C15_HungReadStillReturns ==
    \A c \in Sequential : (pc[c] = "fetch") ~> (pc[c] = "done")

\* A call is awaiting Promise.all with one read that will never respond.
C15_HungCall ==
    \E c \in Sequential :
        /\ pc[c] = "fetch"
        /\ Hung \in {telcoData[c].outcome, deviceData[c].outcome, lastSession[c].outcome}

\* Such a call stays where it is: it never returns.
C15_HungCallNeverReturns ==
    [][\A c \in Sequential :
          (pc[c] = "fetch"
           /\ Hung \in {telcoData[c].outcome, deviceData[c].outcome, lastSession[c].outcome})
          => (pc'[c] = "fetch" /\ returned'[c] = "none")]_vars

\* C16: every computed result has confidence >= 50, so a returned result has
\* confidence 30 if and only if it is the fixed fallback of the catch block.
C16_ConfidenceSeparates ==
    \A c \in Calls :
        (Done(c) /\ returned[c] = "value") =>
            /\ ~caught[c] => result[c].confidence >= 50
            /\ result[c].confidence = 30 <=> caught[c]
            /\ result[c].confidence = 30 <=> result[c] = FixedFallback

\* A computed result with the least data (no telco row, a device never seen)
\* carries confidence 50, and it is not the fallback.
C16_Witness ==
    \E c \in Calls :
        /\ Computed(c)
        /\ ~telcoData[c].present
        /\ result[c].factors.firstTimeDevice
        /\ result[c].confidence = 50
        /\ result[c] # FixedFallback

\* C17: geovelocityAnomaly is true iff the prior assessment and the current
\* context both carry a coordinate, at least 30 minutes have elapsed since the
\* prior assessment, and distance / elapsedHours > 800 km/h; 1000 km in 20
\* minutes gives false, 1000 km in 40 minutes gives true.
C17_GeovelocityRule ==
    geoRun.checked =>
        LET prior == geoRun.session
            elapsed == geoRun.clock - prior.createdAt   \* minutes
            bothCoordinates ==
                /\ prior.present
                /\ prior.location \in {JSONStringify(l) : l \in Locations}
                /\ geoRun.context.location \in Locations
            km == IF prior.location = JSONStringify(geoRun.context.location)
                  THEN 0 ELSE 1000
        IN  /\ geoRun.anomaly <=>
                  (bothCoordinates /\ elapsed >= 30 /\ km * 60 > 800 * elapsed)
            /\ (bothCoordinates /\ km = 1000 /\ elapsed = 20) => ~geoRun.anomaly
            /\ (bothCoordinates /\ km = 1000 /\ elapsed = 40) => geoRun.anomaly

\* 1000 km in exactly 30 minutes: past the exemption, and an anomaly.
C17_Witness ==
    /\ geoRun.checked
    /\ geoRun.session.location = JSONStringify("A")
    /\ geoRun.context.location = "B"
    /\ geoRun.clock - geoRun.session.createdAt = 30
    /\ geoRun.anomaly

\* Both calls returned a computed result from the same telco and device data,
\* local hour and fraud history, and neither prior-assessment read failed.
SameInputsButPrior ==
    /\ Computed("c1") /\ Computed("c2")
    /\ ctx["c1"] = ctx["c2"] /\ atype["c1"] = atype["c2"]
    /\ telcoData["c1"] = telcoData["c2"]
    /\ deviceData["c1"] = deviceData["c2"]
    /\ lastSession["c1"].outcome # "error" /\ lastSession["c2"].outcome # "error"
    /\ result["c1"].factors.unusualTimeAccess = result["c2"].factors.unusualTimeAccess
    /\ result["c1"].factors.fraudHistoryScore = result["c2"].factors.fraudHistoryScore

C19_Determinism ==
    derivation.runs = 2 =>
        /\ derivation.first = derivation.second
        /\ derivation.firstScore = derivation.secondScore

\* The stored status has changed at least once since the creation.
StatusHasChanged ==
    \E i \in 2..Len(txHistory) : txHistory[i] # txHistory[i - 1]

\* C20: all status changes are tracked: whenever the stored status has
\* changed since creation, metadata.statusChanges has entries and the last
\* entry's target status is the current status.
C20_AllStatusChangesTracked ==
    StatusHasChanged =>
        /\ Len(txStatusChanges) > 0
        /\ txStatusChanges[Len(txStatusChanges)].to = txStatus

\* C21: demo seeding creates no duplicates: after any number of seed requests
\* of the user, two concurrent ones included, each table holds at most one
\* set of demo rows (5 transactions, 3 alerts, 3 risk assessments, 2 devices).
C21_NoDuplicateDemoData ==
    \A table \in DemoTables : Cardinality(demoRows[table]) <= 1

\* C22: ipLocationChange is true iff a prior assessment exists and its
\* recorded address differs from the context's address; without a prior
\* assessment (none stored, or its read failed) it is false and adds nothing
\* to the score.
C22_IpChangeNeedsPrior ==
    \A c \in Calls :
        Computed(c) =>
            /\ result[c].factors.ipLocationChange <=>
                  (lastSession[c].present /\ lastSession[c].ipAddress # ctx[c].ipAddress)
            /\ ~lastSession[c].present => ~result[c].factors.ipLocationChange

\* C23: for every factor record and assessment type the score is
\* clamp_0..100(40*w_sim*[simChangeRecent] + 35*w_imei*[imeiMismatch]
\* + 30*w_geo*[geovelocityAnomaly] + 20*[firstTimeDevice] + 15*[ipLocationChange]
\* + 10*[unusualTimeAccess] - (age > 7 ? min(20, 2*age) : 0) + fraudHistoryScore),
\* with w = 1 except 1.5, 1.3, 1.2 under HIGH_VALUE_TRANSACTION (in tenths).
C23_ScoreFormula ==
    sScore # -1 =>
        LET f == sFactors
            hv == sType = "HIGH_VALUE_TRANSACTION"
            age == f.deviceBindingAge
            reduction == IF age > 7 THEN (IF 2 * age < 20 THEN 2 * age ELSE 20) ELSE 0
            sum == (IF f.simChangeRecent THEN (IF hv THEN 600 ELSE 400) ELSE 0)
                 + (IF f.imeiMismatch THEN (IF hv THEN 455 ELSE 350) ELSE 0)
                 + (IF f.geovelocityAnomaly THEN (IF hv THEN 360 ELSE 300) ELSE 0)
                 + (IF f.firstTimeDevice THEN 200 ELSE 0)
                 + (IF f.ipLocationChange THEN 150 ELSE 0)
                 + (IF f.unusualTimeAccess THEN 100 ELSE 0)
                 - 10 * reduction
                 + 10 * f.fraudHistoryScore
        IN  sScore = (IF sum < 0 THEN 0 ELSE IF sum > 1000 THEN 1000 ELSE sum)

\* A binding of exactly seven days: the SIM change alone, under the high-value
\* weights, scores 60 with no reduction.
C23_Witness ==
    /\ sScore = 600
    /\ sType = "HIGH_VALUE_TRANSACTION"
    /\ sFactors.simChangeRecent
    /\ sFactors.deviceBindingAge = 7
    /\ sFactors.fraudHistoryScore = 0

\* C24: payment initiation maps BLOCK to DECLINED, ESCROW to ESCROW, CHALLENGE
\* to PENDING, ALLOW to APPROVED unless step-up is required (then PENDING); a
\* transaction is created APPROVED only on ALLOW without step-up, and
\* escrowReleaseTime is set, 24 hours ahead, iff the initial status is ESCROW.
C24_InitialStatusMapping ==
    initiated.done =>
        /\ initiated.recommendedAction = "BLOCK" => txStatus = "DECLINED"
        /\ initiated.recommendedAction = "ESCROW" => txStatus = "ESCROW"
        /\ initiated.recommendedAction = "CHALLENGE" => txStatus = "PENDING"
        /\ initiated.recommendedAction = "ALLOW" =>
              txStatus = (IF initiated.stepUpRequired THEN "PENDING" ELSE "APPROVED")
        /\ txStatus = "APPROVED" =>
              (initiated.recommendedAction = "ALLOW" /\ ~initiated.stepUpRequired)
        /\ txEscrowReleaseTime # -1 <=> txStatus = "ESCROW"
        /\ txStatus = "ESCROW" => txEscrowReleaseTime = now + 1440

\* A high-value payment the engine wants in escrow.
C24_Witness ==
    /\ initiated.done
    /\ initiated.assessmentType = "HIGH_VALUE_TRANSACTION"
    /\ initiated.recommendedAction = "ESCROW"
    /\ txStatus = "ESCROW"
    /\ txEscrowReleaseTime = 1440

\* The transition table of the claims, as a set of pairs.
TransitionTable ==
    {<<"PENDING", "APPROVED">>, <<"PENDING", "DECLINED">>, <<"PENDING", "ESCROW">>,
     <<"PENDING", "CANCELLED">>,
     <<"APPROVED", "COMPLETED">>, <<"APPROVED", "ESCROW">>, <<"APPROVED", "CANCELLED">>,
     <<"ESCROW", "APPROVED">>, <<"ESCROW", "COMPLETED">>, <<"ESCROW", "DECLINED">>,
     <<"DECLINED", "PENDING">>, <<"DECLINED", "CANCELLED">>,
     <<"COMPLETED", "CANCELLED">>}

\* C25: an unforced changeStatus call succeeds only if the new status is
\* allowed from the stored status; a rejected call leaves the transaction
\* unchanged; a CANCELLED transaction never changes status again.
C25_TransitionTableEnforced ==
    [][ /\ \A a \in SingleAgent :
              (agent[a].at = "read" /\ agent'[a].at = "idle") =>
                  IF agent'[a].outcome = "success"
                  THEN /\ txStatus' = agent[a].newStatus
                       /\ <<txStatus, txStatus'>> \in TransitionTable
                  ELSE UNCHANGED <<txStatus, txRiskScore, txStepUpRequired,
                                   txStatusChanges, txHistory, txEscrowReleaseTime>>
        /\ txStatus = "CANCELLED" => txStatus' = "CANCELLED"
      ]_vars

\* A call on a cancelled transaction was rejected.
C25_Witness ==
    /\ txStatus = "CANCELLED"
    /\ Len(txHistory) = 2
    /\ agent["a1"].at = "idle"
    /\ agent["a1"].outcome = "error"

\* C26: changeStatus is atomic with respect to its validation: with two
\* unforced calls running concurrently, the statuses stored one after the
\* other still follow the transition table, and no statusChanges entry
\* written by one call is lost by the other.
C26_AtomicValidation ==
    /\ \A i \in 2..Len(txHistory) : <<txHistory[i - 1], txHistory[i]>> \in TransitionTable
    /\ Len(txStatusChanges) = Len(txHistory) - 1

\* C27: the high-risk completion guard holds system-wide: over PATCH
\* /payments/status, COMPLETE_STEP_UP and changeStatus, a transaction whose
\* stored risk score is above 70, or whose status is DECLINED, does not become
\* COMPLETED unless a changeStatus call with forceChange = true was made on it.
C27_HighRiskCompletionGuard ==
    [][ ( /\ txStatus # "COMPLETED"
          /\ txStatus' = "COMPLETED"
          /\ (txRiskScore > 700 \/ txStatus = "DECLINED") ) => txForced' ]_vars

\* C28: in every result of assessRisk, for every assessment type,
\* recommendedAction ALLOW implies stepUpRequired false, and BLOCK or ESCROW
\* implies stepUpRequired true, the BLOCK of the SIM-swap plus IMEI-mismatch
\* override under the maximum binding-age reduction included; the fallback
\* constant is one of the results.
C28_ActionAgreesWithStepUp ==
    /\ sScore # -1 =>
          LET action == getRecommendedAction(sScore, sFactors)
              stepUp == shouldStepUp(sScore, sType)
          IN  /\ action = "ALLOW" => ~stepUp
              /\ action \in {"BLOCK", "ESCROW"} => stepUp
    /\ getFailSafeAssessment.recommendedAction = "ALLOW"
          => ~getFailSafeAssessment.stepUpRequired
    /\ getFailSafeAssessment.recommendedAction \in {"BLOCK", "ESCROW"}
          => getFailSafeAssessment.stepUpRequired

\* C28 witness: SIM swap and IMEI mismatch alone on a device bound for ten
\* days or more: score 55, BLOCK by the override, step-up required.
C28_Witness ==
    /\ sScore = 550
    /\ sType # "HIGH_VALUE_TRANSACTION"
    /\ sFactors.simChangeRecent /\ sFactors.imeiMismatch
    /\ sFactors.deviceBindingAge >= 10
    /\ getRecommendedAction(sScore, sFactors) = "BLOCK"
    /\ shouldStepUp(sScore, sType)

C30_FailSafeWritesNothing ==
    [][ /\ \A c \in Sequential :
              (returned[c] = "none" /\ returned'[c] = "value") =>
                  IF result'[c] = getFailSafeAssessment
                  THEN UNCHANGED <<pendingWrites, writesIssued, assessments>>
                  ELSE /\ writesIssued' = writesIssued + 1
                       /\ pendingWrites' =
                             pendingWrites (+) SetToBag({assessmentRow(ctx[c], now)})
                       /\ UNCHANGED assessments
        /\ writesIssued' # writesIssued =>
              \E c \in Sequential :
                  /\ returned[c] = "none" /\ returned'[c] = "value"
                  /\ result'[c] # getFailSafeAssessment
        /\ assessments' # assessments =>
              \E row \in BagToSet(pendingWrites) :
                  /\ assessments' = assessments (+) SetToBag({row})
                  /\ pendingWrites' = pendingWrites (-) SetToBag({row})
      ]_vars

\* C30 witness: a call whose prior row could not be parsed returned the
\* fail-safe constant, and no insert was issued.
C30_Witness ==
    \E c \in Sequential :
        /\ returned[c] = "value"
        /\ caught[c]
        /\ result[c] = getFailSafeAssessment
        /\ writesIssued = 0
        /\ pendingWrites = EmptyBag
        /\ assessments = SetToBag({ForeignRow})

====
